---- MODULE Spec2Model ----
(***************************************************************************)
(* A model of the anno_lua derive pipeline: the attribute parser           *)
(* (anno_lua_derive/src/attrs.rs), the record modeler and its type guesser *)
(* (structs.rs), the enum modeler (enums.rs) and the renderer              *)
(* (anno_lua_impl/src/lib.rs).                                             *)
(*                                                                         *)
(* Strings are sequences of chunks; the chunk " " is whitespace and every  *)
(* other chunk is a run of non-whitespace text.  A syn::Error is the       *)
(* sequence of its messages (Error::combine appends).  A Span names the    *)
(* member it lies in and the part of the member it covers.                 *)
(***************************************************************************)
EXTENDS Integers, Sequences, FiniteSets, TLC

VARIABLES
    gPc, gPath, gRet,
    ePc, eMetaIn, eMeta, eVariants, eOut, eErrors, eSeen, eN, eResult,
    sPc, sGuess, sNamed, sFields, sOut, sFrom, sErrors, sSeen, sResult,
    rPc, rTy, rBefore, rOut,
    eTable,
    cPc, cMetaIn, cMeta, cResult,
    aPc, aAttrs, aAllowed, aRet

guessVars  == <<gPc, gPath, gRet>>
enumVars   == <<ePc, eMetaIn, eMeta, eVariants, eOut, eErrors, eSeen, eN, eResult,
                eTable>>
structVars == <<sPc, sGuess, sNamed, sFields, sOut, sFrom, sErrors, sSeen, sResult>>
renderVars == <<rPc, rTy, rBefore, rOut>>
classVars  == <<cPc, cMetaIn, cMeta, cResult>>
attrVars   == <<aPc, aAttrs, aAllowed, aRet>>
vars == <<guessVars, enumVars, structVars, renderVars, classVars, attrVars>>

-----------------------------------------------------------------------------
(* Bounds of the model.                                                    *)

\* Deepest nesting of a type path handed to the type guesser.
MaxDepth == 3
\* Most keys in an enum-level #[anno(...)] block.
MaxMetaItems == 2
\* Most variants of an enum.
MaxVariants == 3
\* Most fields of a struct.
MaxFields == 3
\* Most fields of a rendered Class, most variants of a rendered Enum.
MaxMembers == 2
\* The longest member-level metadata block handed to the attribute parser.
MaxItems == 3

-----------------------------------------------------------------------------
(* Strings, spans, errors.                                                 *)

Space == " "

\* `F` of the value of e: e is evaluated once and F sees its value.
With(e, F(_)) == CHOOSE r \in {F(x) : x \in {e}} : TRUE

\* Vec::reverse
\* The vector left in the order it was filled.
InOrder(s) == s

Reverse(s) == [i \in 1..Len(s) |-> s[Len(s) + 1 - i]]

\* str::trim_start: the string without its leading whitespace
TrimStart(s) ==
    LET k == CHOOSE k \in 0..Len(s) :
                 /\ \A i \in 1..k : s[i] = Space
                 /\ k = Len(s) \/ s[k + 1] # Space
    IN SubSeq(s, k + 1, Len(s))

\* str::trim
Trim(s) == Reverse(TrimStart(Reverse(TrimStart(s))))

\* str::trim().is_empty()
\* Emptiness looked at without trimming.
IsEmptyUntrimmed(s) == s = <<>>

TrimIsEmpty(s) == \A i \in 1..Len(s) : s[i] = Space

\* A span: member m (0 is the type itself), the part of it, and the
\* position k of the key inside its #[anno(...)] block (0 when unused).
Span(m, at, k) == [m |-> m, at |-> at, k |-> k]

\* syn::Error::new(span, msg)
NewErrorAt(span, msg) ==
    <<[span |-> span, msg |-> msg, raw |-> "", supported |-> {}]>>

\* syn::Error::combine
Combine(left, right) == left \o right

\* errors.into_iter().reduce(|mut left, right| { left.combine(right); left })
RECURSIVE ReduceFrom(_, _, _)
ReduceFrom(errs, i, left) ==
    IF i > Len(errs) THEN left
    ELSE ReduceFrom(errs, i + 1, Combine(left, errs[i]))
Reduce(errs) == ReduceFrom(errs, 2, errs[1])

None == [some |-> FALSE, v |-> <<>>]
Some(x) == [some |-> TRUE, v |-> x]

-----------------------------------------------------------------------------
(* The type guesser, structs.rs try_classify_type.                         *)
(*                                                                         *)
(* A syn::Path is modelled as the chain of its first generic arguments:    *)
(* path[i+1] is the path of the first generic argument of path[i].  A      *)
(* node records the last segment's ident, the number of segments, a        *)
(* leading `::`, the kind of arguments of the head segment, their number   *)
(* and whether the first one is itself a path type.                        *)

IntegerIdents == {"i8", "i16", "i32", "i64", "isize",
                  "u8", "u16", "u32", "u64", "usize"}
FloatIdents == {"f32", "f64"}

Node(ident, segs, colon, args, nargs, first) ==
    [ident |-> ident, segs |-> segs, colon |-> colon,
     args |-> args, nargs |-> nargs, first |-> first]

\* syn::Path::get_ident: no leading colon, one segment, no arguments
GetIdent(node) ==
    IF ~node.colon /\ node.segs = 1 /\ node.args = "none"
    THEN Some(node.ident) ELSE None

\* buf.push_str of the container's suffix
PushSuffix(buf, container) ==
    CASE container = "Option" -> Append(buf, "?")
      [] container = "Vec"    -> Append(buf, "[]")
      [] OTHER                -> buf

\* The body of `while let Some((buf, path)) = queue.pop_front()`; a queue
\* entry is the suffix buffer and the position in the chain.
RECURSIVE ClassifyLoop(_, _)
ClassifyLoop(path, queue) ==
    IF queue = <<>> THEN None
    ELSE
      LET buf  == Head(queue).buf
          pos  == Head(queue).pos
          node == path[pos]
          rest == Tail(queue)
          id   == GetIdent(node)
      IN
        IF ~id.some THEN
            IF node.segs > 1 THEN None
            ELSE IF node.ident \notin {"Option", "Vec"} THEN None
            ELSE IF node.args # "angle" THEN None
            ELSE IF node.nargs > 1 THEN None
            ELSE IF node.nargs = 0 THEN None
            ELSE IF node.first # "path" THEN None
            ELSE ClassifyLoop(path,
                     Append(rest, [buf |-> PushSuffix(buf, node.ident),
                                   pos |-> pos + 1]))
        ELSE IF id.v = "String" THEN Some(<<"string">> \o buf)
        ELSE IF id.v \in FloatIdents THEN Some(<<"number">> \o buf)
        ELSE IF id.v = "bool" THEN Some(<<"boolean">> \o buf)
        ELSE IF id.v \in IntegerIdents THEN Some(<<"integer">> \o buf)
        ELSE ClassifyLoop(path, rest)

TryClassifyType(path) == ClassifyLoop(path, <<[buf |-> <<>>, pos |-> 1]>>)

\* A field's syn::Type: a path type, or any other type (tuple, reference..)
PathType(path) == [isPath |-> TRUE, path |-> path]
OtherType == [isPath |-> FALSE, path |-> <<>>]

\* structs.rs 146-153: the guess for a field without lua_type
GuessType(ty) ==
    LET got == IF ty.isPath THEN TryClassifyType(ty.path) ELSE None
    IN IF got.some THEN got.v ELSE <<"any">>

\* The type paths the guesser is run on.
WrapperIdents == {"Option", "Vec", "Box"}
InnerNodes ==
    {Node(id, 1, FALSE, "angle", 1, "path") : id \in WrapperIdents}
    \cup {Node("Option", 2, FALSE, "angle", 1, "path"),
          Node("Vec", 1, FALSE, "angle", 2, "path"),
          Node("Option", 1, TRUE, "angle", 1, "path")}
LeafNodes ==
    {Node(id, 1, FALSE, "none", 0, "none") :
        id \in IntegerIdents \cup FloatIdents
               \cup {"String", "bool", "Foo", "Option"}}
    \cup {Node("String", 2, FALSE, "none", 0, "none"),
          Node("bool", 1, TRUE, "none", 0, "none")}
    \cup {Node(id, 1, FALSE, "angle", 0, "none") : id \in {"Option", "Vec"}}
    \cup {Node(id, 1, FALSE, "angle", 1, "other") : id \in {"Option", "Vec"}}
    \cup {Node(id, 1, FALSE, "paren", 1, "other") : id \in {"Option", "Vec"}}

RECURSIVE PathsOfDepth(_)
PathsOfDepth(d) ==
    IF d = 1 THEN {<<n>> : n \in LeafNodes}
    ELSE {<<n>> \o p : n \in InnerNodes, p \in PathsOfDepth(d - 1)}

Paths == UNION {PathsOfDepth(d) : d \in 1..MaxDepth}

\* One call of try_classify_type on the drawn path.
Classify ==
    /\ gPc = "call"
    /\ gPc' = "done"
    /\ gRet' = TryClassifyType(gPath)
    /\ UNCHANGED <<gPath, enumVars, structVars, renderVars, classVars, attrVars>>

-----------------------------------------------------------------------------
(* The attribute parser, attrs.rs parse_attrs.                             *)
(*                                                                         *)
(* The first #[anno...] attribute of a node is [present, list, items]:     *)
(* `list` is FALSE for #[anno] and #[anno = ..], which require_list        *)
(* rejects.  An item of the list is a key path (ident = FALSE for a path   *)
(* that is no single ident), with `= value` when hasValue; isStr tells a   *)
(* string literal from any other token.                                    *)

Kinds == {"Type", "Name", "Ignore"}

Item(key, ident, hasValue, isStr, value) ==
    [key |-> key, ident |-> ident, hasValue |-> hasValue,
     isStr |-> isStr, value |-> value]
Flag(key) == Item(key, TRUE, FALSE, FALSE, <<>>)
KeyValue(key, value) == Item(key, TRUE, TRUE, TRUE, value)

NoAnno == [present |-> FALSE, list |-> FALSE, items |-> <<>>]
Anno(items) == [present |-> TRUE, list |-> TRUE, items |-> items]

NoSpan == Span(0, "none", 0)
Absent == [present |-> FALSE, key |-> NoSpan, value |-> NoSpan, data |-> <<>>]
Attr(key, value, data) ==
    [present |-> TRUE, key |-> key, value |-> value, data |-> data]

\* HashMap::new()
EmptyMap == [k \in Kinds |-> Absent]

\* the "unknown ident: {raw}, supported: {available}" error
UnknownIdent(span, raw, available) ==
    <<[span |-> span, msg |-> "unknown ident", raw |-> raw,
       supported |-> available]>>

\* A `?` inside the closure, or parse_nested_meta's own `expected ,`.
Hard(err) ==
    [hard |-> TRUE, err |-> err, consumed |-> FALSE,
     out |-> EmptyMap, errors |-> <<>>]
Soft(consumed, out, errors) ==
    [hard |-> FALSE, err |-> <<>>, consumed |-> consumed,
     out |-> out, errors |-> errors]

\* attrs.rs 33-97: the closure handed to parse_nested_meta, on item j of
\* member m; `allowed` maps the accepted keys to their kinds.
AttrClosure(it, j, allowed, m, out, errors) ==
    LET keySpan == Span(m, "key", j)
        valSpan == Span(m, "value", j)
    IN
    IF it.ident /\ it.key \in DOMAIN allowed /\ allowed[it.key] = "Ignore" THEN
        Soft(FALSE, [out EXCEPT !["Ignore"] = Attr(keySpan, keySpan, <<>>)],
             errors)
    ELSE IF ~it.ident THEN
        Hard(NewErrorAt(keySpan, "expected ident"))
    ELSE IF it.key \notin DOMAIN allowed THEN
        IF ~it.hasValue THEN Hard(NewErrorAt(keySpan, "expected ="))
        ELSE IF ~it.isStr THEN
            Hard(NewErrorAt(valSpan, "expected string literal"))
        ELSE Soft(TRUE, out,
                  Append(errors,
                         UnknownIdent(keySpan, it.key, DOMAIN allowed)))
    ELSE IF ~it.hasValue THEN Hard(NewErrorAt(keySpan, "expected ="))
    ELSE IF ~it.isStr THEN
        Hard(NewErrorAt(valSpan, "expected string literal"))
    ELSE IF TrimIsEmpty(it.value) THEN
        Soft(TRUE, out,
             Append(errors, NewErrorAt(valSpan, "attribute cannot be empty")))
    ELSE
        LET kind == allowed[it.key]
            previous == out[kind]
            inserted == [out EXCEPT ![kind] = Attr(keySpan, valSpan, it.value)]
        IN IF previous.present THEN
               Soft(TRUE, inserted,
                    Append(errors,
                           Combine(NewErrorAt(keySpan, "duplicate attribute found"),
                                   NewErrorAt(previous.key, "previous use here"))))
           ELSE Soft(TRUE, inserted, errors)

\* syn's parse_nested_meta: the closure on every item in turn; a value the
\* closure left unparsed is met where `,` is expected.
RECURSIVE ParseNestedMeta(_, _, _, _, _, _)
ParseNestedMeta(items, j, allowed, m, out, errors) ==
    IF j > Len(items) THEN Soft(TRUE, out, errors)
    ELSE
      With(AttrClosure(items[j], j, allowed, m, out, errors),
           LAMBDA step :
             IF step.hard THEN step
             ELSE IF items[j].hasValue /\ ~step.consumed THEN
                 Hard(NewErrorAt(Span(m, "value", j), "expected ,"))
             ELSE ParseNestedMeta(items, j + 1, allowed, m,
                                  step.out, step.errors))

Ok(v) == [ok |-> TRUE, v |-> v, err |-> <<>>]
Err(e) == [ok |-> FALSE, v |-> EmptyMap, err |-> e]

\* attrs.rs 20-109
ParseAttrs(attrs, allowed, m) ==
    IF ~attrs.present THEN Ok(EmptyMap)
    ELSE IF ~attrs.list THEN
        Err(NewErrorAt(Span(m, "attr", 0), "expected attribute arguments"))
    ELSE
      With(ParseNestedMeta(attrs.items, 1, allowed, m, EmptyMap, <<>>),
           LAMBDA r :
             IF r.hard THEN Err(r.err)
             ELSE IF r.errors # <<>> THEN Err(Reduce(Reverse(r.errors)))
             ELSE Ok(r.out))

-----------------------------------------------------------------------------
(* error.rs: Error::into_syn_error.                                        *)

IntoSynError(kind, span) ==
    CASE kind = "Union" -> NewErrorAt(span, "unions are not supported")
      [] kind = "UnnamedField" ->
            NewErrorAt(span, "unnamed fields are not allowed")
      [] kind = "TyRequire" -> NewErrorAt(span, "lua_type = type is required")
      [] kind = "OnlyName" ->
            NewErrorAt(span, "only name = name is allowed here")
      [] kind = "SelfDiscriminant" ->
            NewErrorAt(span,
                "a discriminant was provided when self was requested")
      [] kind = "ExpectedNumber" -> NewErrorAt(span, "expected a number here")
      [] kind = "OnlyUnitVariants" ->
            NewErrorAt(span, "only unit variants are allowed")
      [] kind = "DuplicateName" -> NewErrorAt(span, "duplicate name provided")
      [] kind = "EmptyName" -> NewErrorAt(span, "name cannot be empty")

-----------------------------------------------------------------------------
(* The enum modeler, enums.rs.                                             *)

\* EnumMeta { use_self, name }
EnumMeta(useSelf, name) == [use_self |-> useSelf, name |-> name]

MetaHard(err) ==
    [hard |-> TRUE, err |-> err, consumed |-> FALSE,
     this |-> EnumMeta(FALSE, <<>>)]
MetaSoft(consumed, this) ==
    [hard |-> FALSE, err |-> <<>>, consumed |-> consumed, this |-> this]

\* An unknown key whose value is read and dropped, as parse_attrs does.
OtherKeyReadsValue(it, this) == MetaSoft(TRUE, this)

\* enums.rs 52: a key that is neither `name` nor `self` is passed over,
\* and a value it may carry is not read
OtherKey(it, this) == MetaSoft(FALSE, this)

\* enums.rs 35-53: the closure of EnumMeta::parse on item j
EnumMetaClosure(it, j, this) ==
    LET keySpan == Span(0, "key", j)
        valSpan == Span(0, "value", j)
        isName == it.ident /\ it.key = "name"
        isSelf == it.ident /\ it.key = "self"
    IN
    IF isName /\ this.name # <<>> THEN
        MetaHard(NewErrorAt(keySpan, "duplicate name provided"))
    ELSE IF isName /\ ~it.hasValue THEN
        MetaHard(NewErrorAt(keySpan, "expected ="))
    ELSE IF isName /\ ~it.isStr THEN
        MetaHard(NewErrorAt(valSpan, "expected string literal"))
    ELSE IF isName /\ TrimIsEmpty(it.value) THEN
        MetaHard(NewErrorAt(valSpan, "name cannot be empty"))
    ELSE IF isName THEN MetaSoft(TRUE, [this EXCEPT !.name = it.value])
    ELSE IF isSelf THEN MetaSoft(FALSE, [this EXCEPT !.use_self = TRUE])
    ELSE OtherKey(it, this)

\* syn's parse_nested_meta around the closure of EnumMeta::parse
RECURSIVE EnumMetaLoop(_, _, _)
EnumMetaLoop(items, j, this) ==
    IF j > Len(items) THEN MetaSoft(TRUE, this)
    ELSE
      With(EnumMetaClosure(items[j], j, this),
           LAMBDA step :
             IF step.hard THEN step
             ELSE IF items[j].hasValue /\ ~step.consumed THEN
                 MetaHard(NewErrorAt(Span(0, "value", j), "expected ,"))
             ELSE EnumMetaLoop(items, j + 1, step.this))

\* enums.rs 21-61: EnumMeta::parse of a declaration [ident, attrs]
EnumMetaParse(input) ==
    IF ~input.attrs.present THEN
        [ok |-> TRUE, meta |-> EnumMeta(FALSE, input.ident), err |-> <<>>]
    ELSE IF ~input.attrs.list THEN
        [ok |-> FALSE, meta |-> EnumMeta(FALSE, <<>>),
         err |-> NewErrorAt(Span(0, "attr", 0), "expected attribute arguments")]
    ELSE
      With(EnumMetaLoop(input.attrs.items, 1, EnumMeta(FALSE, <<>>)),
           LAMBDA r :
             IF r.hard THEN
                 [ok |-> FALSE, meta |-> EnumMeta(FALSE, <<>>), err |-> r.err]
             ELSE
                 [ok |-> TRUE,
                  meta |-> IF TrimIsEmpty(r.this.name)
                           THEN [r.this EXCEPT !.name = input.ident]
                           ELSE r.this,
                  err |-> <<>>])

\* An explicit discriminant expression: an integer literal, the negation of
\* an operand, or any other expression; `int` tells whether the literal or
\* the negated operand is an integer literal, `fits` whether base10_parse
\* to isize succeeds, `n` its value.
NoExpr == [kind |-> "none", int |-> FALSE, fits |-> FALSE, n |-> 0]
LitExpr(n) == [kind |-> "lit", int |-> TRUE, fits |-> TRUE, n |-> n]
NegExpr(n) == [kind |-> "neg", int |-> TRUE, fits |-> TRUE, n |-> n]
HugeLit == [kind |-> "lit", int |-> TRUE, fits |-> FALSE, n |-> 0]
NegOther == [kind |-> "neg", int |-> FALSE, fits |-> FALSE, n |-> 0]
OtherExpr == [kind |-> "other", int |-> FALSE, fits |-> FALSE, n |-> 0]

\* enums.rs 255-296: eval_expr; the error it pushes, or the value
EvalExpr(expr, span) ==
    CASE expr.kind = "lit" /\ expr.int ->
            IF expr.fits THEN [some |-> TRUE, n |-> expr.n, err |-> <<>>]
            ELSE [some |-> FALSE, n |-> 0,
                  err |-> NewErrorAt(span, "number too large to fit in target type")]
      [] expr.kind = "neg" /\ expr.int ->
            IF expr.fits THEN [some |-> TRUE, n |-> 0 - expr.n, err |-> <<>>]
            ELSE [some |-> FALSE, n |-> 0,
                  err |-> NewErrorAt(span, "number too large to fit in target type")]
      [] OTHER ->
            [some |-> FALSE, n |-> 0,
             err |-> IntoSynError("ExpectedNumber", span)]

Number(n) == [kind |-> "Number", n |-> n, s |-> <<>>]
Named(s) == [kind |-> "Named", n |-> 0, s |-> s]

\* data::Variant; `m` is the position of the originating member (its span)
Variant(m, ident, name, discriminant) ==
    [span |-> Span(m, "member", 0), variant |-> ident, name |-> name,
     discriminant |-> discriminant]

\* HashMap<String, Span>::insert: the previous span of the key, if any
SeenGet(seen, name) ==
    IF \E e \in seen : e.name = name
    THEN Some((CHOOSE e \in seen : e.name = name).span)
    ELSE [some |-> FALSE, v |-> NoSpan]
SeenInsert(seen, name, span) ==
    {e \in seen : e.name # name} \cup {[name |-> name, span |-> span]}

AllowedOnVariant == [k \in {"name"} |-> "Name"]

\* errors.push(e); continue
\* The member left out without an error being pushed.
Skipped(st, e) == st

Pushed(st, e) == [st EXCEPT !.errors = Append(st.errors, e)]

\* enums.rs 228-235: seen.insert(name, value), then the duplicate-name
\* error or out.push(new); n is the counter after this member
InsertVariant(st, name, value, new, n) ==
    With(SeenGet(st.seen, name),
         LAMBDA prev :
           IF prev.some THEN
               [out |-> st.out,
                errors |-> Append(st.errors,
                     Combine(NewErrorAt(value, "duplicate name found"),
                             NewErrorAt(prev.v, "previous used here"))),
                seen |-> SeenInsert(st.seen, name, value),
                n |-> n]
           ELSE
               [out |-> Append(st.out, new),
                errors |-> st.errors,
                seen |-> SeenInsert(st.seen, name, value),
                n |-> n])

\* The first arm left out.
SelfConflictNever(v, useSelf) == FALSE

\* enums.rs 187: the guard of the first arm, a unit variant with an
\* explicit discriminant while `self` is requested
SelfConflict(v, useSelf) ==
    v.fields = "unit" /\ v.disc.kind # "none" /\ useSelf

\* A counter that follows the discriminant, as the compiler's own does.
AdvanceFromExplicit(n, discriminant) == discriminant.n + 1

\* enums.rs 203: n += 1, whatever discriminant the variant got
Advance(n, discriminant) == n + 1

\* enums.rs 178-226: the variant made of v once its attributes kv parsed
VariantOf(v, m, enumName, useSelf, st, kv) ==
    LET value == IF kv["Name"].present THEN kv["Name"].value
                 ELSE Span(m, "ident", 0)
        name  == IF kv["Name"].present THEN kv["Name"].data
                 ELSE v.ident
    IN
    IF SelfConflict(v, useSelf) THEN
        Pushed(st, IntoSynError("SelfDiscriminant", Span(m, "member", 0)))
    ELSE IF v.fields = "unit" /\ ~useSelf THEN
        IF v.disc.kind # "none" THEN
            With(EvalExpr(v.disc, Span(m, "expr", 0)),
                 LAMBDA t :
                   IF ~t.some THEN Pushed(st, t.err)
                   ELSE InsertVariant(st, name, value,
                            Variant(m, v.ident, name, Number(t.n)),
                            Advance(st.n, Number(t.n))))
        ELSE InsertVariant(st, name, value,
                 Variant(m, v.ident, name, Number(st.n)),
                 Advance(st.n, Number(st.n)))
    ELSE IF v.fields = "unit" THEN
        InsertVariant(st, name, value,
            Variant(m, v.ident, name, Named(enumName)), st.n)
    ELSE
        Pushed(st, IntoSynError("OnlyUnitVariants", Span(m, "member", 0)))

\* enums.rs 160-236: one iteration of the loop of collect_variants, on the
\* variant v at position m; st is [out, errors, seen, n].
CollectVariantStep(v, m, enumName, useSelf, st) ==
    With(ParseAttrs(v.attrs, AllowedOnVariant, m),
         LAMBDA kv :
           IF ~kv.ok THEN Pushed(st, kv.err)
           ELSE IF \E k \in Kinds \ {"Name"} : kv.v[k].present THEN
               Pushed(st, IntoSynError("OnlyName",
                   kv.v[CHOOSE k \in Kinds \ {"Name"} : kv.v[k].present].key))
           ELSE VariantOf(v, m, enumName, useSelf, st, kv.v))

\* enums.rs 127-147: make_variant_mapping, the (name, variant) pairs of the
\* AnnoEnum lookup table
MakeVariantMapping(variants) ==
    [i \in 1..Len(variants) |->
        [name |-> variants[i].name, path |-> variants[i].variant]]

\* enums.rs 238-252: reverse, combine, or the collected variants
FinishVariants(out, errors) ==
    IF errors # <<>>
    THEN [status |-> "err", out |-> <<>>, err |-> Reduce(Reverse(errors))]
    ELSE [status |-> "ok", out |-> out, err |-> <<>>]

NoResult == [status |-> "none", out |-> <<>>, err |-> <<>>]

\* All sequences over S of length at most n.
SeqsUpTo(S, n) == UNION {[1..k -> S] : k \in 0..n}

\* The declared identifiers of the members, by position.
MemberIdents == <<"A", "B", "C", "D", "E">>
MemberIdent(m) == <<MemberIdents[m]>>

\* The enum declarations: `enum Direction` under each #[anno(..)] block.
EnumIdent == <<"Direction">>
EnumMetaItems ==
    {KeyValue("name", <<"Dir">>), KeyValue("name", <<Space>>),
     Flag("self"), KeyValue("alias", <<"X">>), Flag("alias")}
EnumBlocks ==
    {NoAnno} \cup {Anno(items) : items \in SeqsUpTo(EnumMetaItems, MaxMetaItems)}

\* The variants: unit variants with and without an explicit discriminant,
\* plain, renamed to the second member's identifier or with an empty rename,
\* and a tuple variant.
\* A member's block with two problems: an empty rename, then a key no call
\* site accepts.
TwoProblems == Anno(<<KeyValue("name", <<>>), KeyValue("foo", <<"x">>)>>)
VariantBlocks ==
    {NoAnno, Anno(<<KeyValue("name", MemberIdent(2))>>),
     Anno(<<KeyValue("name", <<>>)>>)}
VariantInputs(m) ==
    {[ident |-> MemberIdent(m), attrs |-> a, fields |-> "unit", disc |-> d] :
        a \in VariantBlocks, d \in {NoExpr, LitExpr(10)}}
    \cup
    {[ident |-> MemberIdent(m), attrs |-> NoAnno, fields |-> "unit",
      disc |-> d] : d \in {NegExpr(10), OtherExpr, NegOther, HugeLit}}
    \cup {[ident |-> MemberIdent(m), attrs |-> NoAnno, fields |-> "tuple",
           disc |-> NoExpr]}
    \cup {[ident |-> MemberIdent(m), attrs |-> TwoProblems, fields |-> "unit",
           disc |-> NoExpr]}

\* enums.rs 63-68: parse runs EnumMeta::parse and returns its error
ParseEnumMeta ==
    /\ ePc = "meta"
    /\ \E attrs \in EnumBlocks :
         \E r \in {EnumMetaParse([ident |-> EnumIdent, attrs |-> attrs])} :
            /\ eMetaIn' = attrs
            /\ eMeta' = r.meta
            /\ ePc' = IF r.ok THEN "variants" ELSE "done"
            /\ eResult' = IF r.ok THEN NoResult
                          ELSE [status |-> "err", out |-> <<>>, err |-> r.err]
    /\ UNCHANGED <<eVariants, eOut, eErrors, eSeen, eN, eTable>>
    /\ UNCHANGED <<guessVars, structVars, renderVars, classVars, attrVars>>

\* enums.rs 160-236: collect_variants takes the next variant
CollectVariant ==
    /\ ePc = "variants"
    /\ Len(eVariants) < MaxVariants
    /\ \E v \in VariantInputs(Len(eVariants) + 1) :
         \E st \in {CollectVariantStep(v, Len(eVariants) + 1, eMeta.name,
                       eMeta.use_self,
                       [out |-> eOut, errors |-> eErrors, seen |-> eSeen,
                        n |-> eN])} :
            /\ eVariants' = Append(eVariants, v)
            /\ eOut' = st.out
            /\ eErrors' = st.errors
            /\ eSeen' = st.seen
            /\ eN' = st.n
    /\ UNCHANGED <<ePc, eMetaIn, eMeta, eResult, eTable>>
    /\ UNCHANGED <<guessVars, structVars, renderVars, classVars, attrVars>>

\* enums.rs 238-252: no variant is left
CollectVariantsReturn ==
    /\ ePc = "variants"
    /\ ePc' = "done"
    /\ eResult' = FinishVariants(eOut, eErrors)
    /\ eTable' = MakeVariantMapping(FinishVariants(eOut, eErrors).out)
    /\ UNCHANGED <<eMetaIn, eMeta, eVariants, eOut, eErrors, eSeen, eN>>
    /\ UNCHANGED <<guessVars, structVars, renderVars, classVars, attrVars>>

-----------------------------------------------------------------------------
(* The record modeler, structs.rs collect_fields.                          *)

\* docs.rs 3-23: collect_docs, on the doc strings of a node in source order
CollectDocs(docs) == [i \in 1..Len(docs) |-> Trim(docs[i])]

\* data::Field
Field(name, ty, docs) == [name |-> name, ty |-> ty, docs |-> docs]

AllowedOnField ==
    [k \in {"lua_type", "name", "ignore"} |->
        CASE k = "lua_type" -> "Type" [] k = "name" -> "Name"
          [] k = "ignore" -> "Ignore"]

Continue(out, from, errors, seen) ==
    [return |-> FALSE, err |-> <<>>, out |-> out, from |-> from,
     errors |-> errors, seen |-> seen]
Return(err, st) ==
    [return |-> TRUE, err |-> err, out |-> st.out, from |-> st.from,
     errors |-> st.errors, seen |-> st.seen]

\* structs.rs 164-171: seen.insert(name, value), then the duplicate-name
\* error or out.push(new)
InsertField(st, m, name, value, new) ==
    With(SeenGet(st.seen, name),
         LAMBDA prev :
           IF prev.some THEN
               Continue(st.out, st.from,
                   Append(st.errors,
                       Combine(NewErrorAt(value, "duplicate name found"),
                               NewErrorAt(prev.v, "previous used here"))),
                   SeenInsert(st.seen, name, value))
           ELSE
               Continue(Append(st.out, new), Append(st.from, m),
                   st.errors, SeenInsert(st.seen, name, value)))

\* The `ignore` key looked at by nobody.
IsIgnoreNever(kvs) == FALSE

\* structs.rs 132: kvs.remove(&Kind::Ignore).is_some()
IsIgnore(kvs) == kvs["Ignore"].present

\* The guess taken before the override.
TypeOfGuessFirst(guess, ty, fty) ==
    IF guess THEN Some(GuessType(fty)) ELSE ty

\* structs.rs 144-156: the target type of a field whose lua_type is `ty`
\* (None when absent) and whose declared type is fty; None is the
\* TyRequire error
TypeOf(guess, ty, fty) ==
    IF guess THEN Some(IF ty.some THEN ty.v ELSE GuessType(fty))
    ELSE ty

\* structs.rs 130-174: the field made of f once its attributes kvs parsed
FieldOf(f, m, guess, st, kvs) ==
    LET value == IF kvs["Name"].present THEN kvs["Name"].value
                 ELSE Span(m, "ident", 0)
        name  == IF kvs["Name"].present THEN kvs["Name"].data
                 ELSE f.ident
        ty    == TypeOf(guess,
                        IF kvs["Type"].present THEN Some(kvs["Type"].data)
                        ELSE None,
                        f.ty)
    IN
    IF ~f.named THEN
        Return(IntoSynError("UnnamedField", Span(m, "member", 0)), st)
    ELSE IF IsIgnore(kvs) THEN
        Continue(st.out, st.from, st.errors, st.seen)
    ELSE IF ~ty.some THEN
        Return(IntoSynError("TyRequire", Span(m, "ident", 0)), st)
    ELSE InsertField(st, m, name, value,
             Field(name, ty.v, CollectDocs(f.docs)))

\* structs.rs 114-175: one iteration of the loop of collect_fields, on the
\* field f at position m; st is [out, from, errors, seen], where from[i] is
\* the position of the member out[i] was made from.
CollectFieldStep(f, m, guess, st) ==
    With(ParseAttrs(f.attrs, AllowedOnField, m),
         LAMBDA kvs :
           IF ~kvs.ok THEN
               Continue(st.out, st.from, Append(st.errors, kvs.err), st.seen)
           ELSE FieldOf(f, m, guess, st, kvs.v))

\* structs.rs 177-186: reverse, combine, or the collected fields
FinishFields(out, errors) ==
    IF errors # <<>>
    THEN [status |-> "err", out |-> <<>>, err |-> Reduce(Reverse(errors))]
    ELSE [status |-> "ok", out |-> out, err |-> <<>>]

\* The fields: named or positional, with each attribute block below; a
\* field whose type is not looked at has type i32.
PlainI32 == PathType(<<Node("i32", 1, FALSE, "none", 0, "none")>>)
OptionVecI32 ==
    PathType(<<Node("Option", 1, FALSE, "angle", 1, "path"),
               Node("Vec", 1, FALSE, "angle", 1, "path"),
               Node("i32", 1, FALSE, "none", 0, "none")>>)
LuaT == <<"t">>
FieldBlocksTyped ==
    {Anno(<<KeyValue("lua_type", LuaT)>>),
     Anno(<<KeyValue("name", MemberIdent(1)), KeyValue("lua_type", LuaT)>>),
     Anno(<<Flag("ignore")>>),
     Anno(<<Flag("ignore"), KeyValue("name", MemberIdent(1)),
            KeyValue("lua_type", LuaT)>>),
     Anno(<<KeyValue("name", <<Space>> \o MemberIdent(1)),
            KeyValue("lua_type", LuaT)>>),
     Anno(<<KeyValue("name", <<>>)>>),
     TwoProblems}
FieldBlocksUntyped == {NoAnno, Anno(<<KeyValue("name", MemberIdent(1))>>)}
FieldInputs(m, named) ==
    {[named |-> named, ident |-> IF named THEN MemberIdent(m) ELSE <<>>,
      attrs |-> a, ty |-> PlainI32, docs |-> <<>>] : a \in FieldBlocksTyped}
    \cup
    {[named |-> named, ident |-> IF named THEN MemberIdent(m) ELSE <<>>,
      attrs |-> a, ty |-> t, docs |-> <<>>] :
        a \in FieldBlocksUntyped, t \in {PlainI32, OptionVecI32, OtherType}}
    \cup
    {[named |-> named, ident |-> IF named THEN MemberIdent(m) ELSE <<>>,
      attrs |-> Anno(<<KeyValue("lua_type", LuaT)>>), ty |-> PlainI32,
      docs |-> <<<<Space, "doc", Space>>>>]}

\* structs.rs 114-175: collect_fields takes the next field
CollectField ==
    /\ sPc = "fields"
    /\ Len(sFields) < MaxFields
    /\ \E f \in FieldInputs(Len(sFields) + 1, sNamed) :
         \E st \in {CollectFieldStep(f, Len(sFields) + 1, sGuess,
                       [out |-> sOut, from |-> sFrom, errors |-> sErrors,
                        seen |-> sSeen])} :
            /\ sFields' = Append(sFields, f)
            /\ sOut' = st.out
            /\ sFrom' = st.from
            /\ sErrors' = st.errors
            /\ sSeen' = st.seen
            /\ sPc' = IF st.return THEN "done" ELSE "fields"
            /\ sResult' = IF st.return
                          THEN [status |-> "err", out |-> <<>>, err |-> st.err]
                          ELSE sResult
    /\ UNCHANGED <<sGuess, sNamed>>
    /\ UNCHANGED <<guessVars, enumVars, renderVars, classVars, attrVars>>

\* structs.rs 177-186: no field is left
CollectFieldsReturn ==
    /\ sPc = "fields"
    /\ sPc' = "done"
    /\ sResult' = FinishFields(sOut, sErrors)
    /\ UNCHANGED <<sGuess, sNamed, sFields, sOut, sFrom, sErrors, sSeen>>
    /\ UNCHANGED <<guessVars, enumVars, renderVars, classVars, attrVars>>

-----------------------------------------------------------------------------
(* The record-level metadata, structs.rs ClassMeta::parse.                 *)

\* ClassMeta { exact, guess, name }
ClassMeta(exact, guess, name) == [exact |-> exact, guess |-> guess, name |-> name]

ClassHard(err) ==
    [hard |-> TRUE, err |-> err, consumed |-> FALSE,
     this |-> ClassMeta(FALSE, FALSE, <<>>)]
ClassSoft(consumed, this) ==
    [hard |-> FALSE, err |-> <<>>, consumed |-> consumed, this |-> this]

\* structs.rs 35-57: the closure of ClassMeta::parse on item j
ClassMetaClosure(it, j, this) ==
    LET keySpan == Span(0, "key", j)
        valSpan == Span(0, "value", j)
        isName == it.ident /\ it.key = "name"
    IN
    IF isName /\ this.name # <<>> THEN
        ClassHard(IntoSynError("DuplicateName", keySpan))
    ELSE IF isName /\ ~it.hasValue THEN
        ClassHard(NewErrorAt(keySpan, "expected ="))
    ELSE IF isName /\ ~it.isStr THEN
        ClassHard(NewErrorAt(valSpan, "expected string literal"))
    ELSE IF isName /\ TrimIsEmpty(it.value) THEN
        ClassHard(IntoSynError("EmptyName", valSpan))
    ELSE IF isName THEN ClassSoft(TRUE, [this EXCEPT !.name = it.value])
    ELSE IF it.ident /\ it.key = "exact" THEN
        ClassSoft(FALSE, [this EXCEPT !.exact = TRUE])
    ELSE IF it.ident /\ it.key = "guess" THEN
        ClassSoft(FALSE, [this EXCEPT !.guess = TRUE])
    ELSE ClassSoft(FALSE, this)

\* syn's parse_nested_meta around the closure of ClassMeta::parse
RECURSIVE ClassMetaLoop(_, _, _)
ClassMetaLoop(items, j, this) ==
    IF j > Len(items) THEN ClassSoft(TRUE, this)
    ELSE
      With(ClassMetaClosure(items[j], j, this),
           LAMBDA step :
             IF step.hard THEN step
             ELSE IF items[j].hasValue /\ ~step.consumed THEN
                 ClassHard(NewErrorAt(Span(0, "value", j), "expected ,"))
             ELSE ClassMetaLoop(items, j + 1, step.this))

\* structs.rs 19-65: ClassMeta::parse of a declaration [ident, attrs]
ClassMetaParse(input) ==
    IF ~input.attrs.present THEN
        [ok |-> TRUE, meta |-> ClassMeta(FALSE, FALSE, input.ident),
         err |-> <<>>]
    ELSE IF ~input.attrs.list THEN
        [ok |-> FALSE, meta |-> ClassMeta(FALSE, FALSE, <<>>),
         err |-> NewErrorAt(Span(0, "attr", 0), "expected attribute arguments")]
    ELSE
      With(ClassMetaLoop(input.attrs.items, 1, ClassMeta(FALSE, FALSE, <<>>)),
           LAMBDA r :
             IF r.hard THEN
                 [ok |-> FALSE, meta |-> ClassMeta(FALSE, FALSE, <<>>),
                  err |-> r.err]
             ELSE
                 [ok |-> TRUE,
                  meta |-> IF TrimIsEmpty(r.this.name)
                           THEN [r.this EXCEPT !.name = input.ident]
                           ELSE r.this,
                  err |-> <<>>])

\* The record declarations: `struct Record` under each #[anno(..)] block.
ClassIdent == <<"Record">>
ClassMetaItems ==
    {KeyValue("name", <<"Rec">>), KeyValue("name", <<Space, "Rec">>),
     KeyValue("name", <<Space>>), KeyValue("name", <<>>),
     Flag("exact"), Flag("guess")}
ClassBlocks ==
    {NoAnno} \cup {Anno(items) : items \in SeqsUpTo(ClassMetaItems, MaxMetaItems)}

\* structs.rs 67-72, 79, 99-102: parse runs ClassMeta::parse, returns its
\* error or goes on with meta.guess and puts exact and name in the Class
ParseClassMeta ==
    /\ cPc = "meta"
    /\ \E attrs \in ClassBlocks :
         \E r \in {ClassMetaParse([ident |-> ClassIdent, attrs |-> attrs])} :
            /\ cMetaIn' = attrs
            /\ cMeta' = r.meta
            /\ cResult' = IF r.ok
                          THEN [status |-> "ok", out |-> <<>>, err |-> <<>>]
                          ELSE [status |-> "err", out |-> <<>>, err |-> r.err]
    /\ cPc' = "done"
    /\ UNCHANGED <<guessVars, enumVars, structVars, renderVars, attrVars>>

-----------------------------------------------------------------------------
(* The attribute parser called on its own.                                 *)

\* The items of a member-level block: the accepted keys with a value, an
\* empty or blank value, no value; `ignore`; keys no call site accepts,
\* with and without a value; a path that is no identifier.
AttrItems ==
    {KeyValue("name", <<"A">>), KeyValue("name", <<Space>>),
     KeyValue("lua_type", <<"t">>), Flag("name"), Flag("ignore"),
     KeyValue("foo", <<"x">>), Flag("foo"),
     Item("a::b", FALSE, TRUE, TRUE, <<"x">>)}
AttrBlocks ==
    {NoAnno} \cup {Anno(items) : items \in SeqsUpTo(AttrItems, MaxItems)}

\* attrs.rs 20-109: one call of parse_attrs
ParseAttrsCall ==
    /\ aPc = "call"
    /\ aPc' = "done"
    /\ aRet' = ParseAttrs(aAttrs, aAllowed, 1)
    /\ UNCHANGED <<aAttrs, aAllowed>>
    /\ UNCHANGED <<guessVars, enumVars, structVars, renderVars, classVars>>

-----------------------------------------------------------------------------
(* The renderer, anno_lua_impl/src/lib.rs.  The sink is the sequence of    *)
(* the lines written to it; a line is a string.                            *)

Class(exact, docs, name, fields) ==
    [type |-> "Class", exact |-> exact, docs |-> docs, name |-> name,
     members |-> fields]
Enum(docs, name, variants) ==
    [type |-> "Enum", exact |-> FALSE, docs |-> docs, name |-> name,
     members |-> variants]
\* anno_lua::Variant
LuaVariant(name, discriminant, docs) ==
    [name |-> name, discriminant |-> discriminant, docs |-> docs]

Indent == <<Space, Space, Space, Space>>

\* writeln!(out, "--- {doc}") for every doc, after `indent`
DocLines(indent, docs) ==
    [i \in 1..Len(docs) |-> indent \o <<"---", Space>> \o TrimStart(docs[i])]

\* The `---@field` line written before the docs of the field.
FieldLinesDocsLast(field) ==
    << <<"---@field", Space>> \o TrimStart(field.name) \o <<Space>>
          \o TrimStart(field.ty) >>
    \o DocLines(<<>>, field.docs)

\* lib.rs 93-101: the lines of one field
FieldLines(field) ==
    DocLines(<<>>, field.docs)
    \o << <<"---@field", Space>> \o TrimStart(field.name) \o <<Space>>
          \o TrimStart(field.ty) >>

\* lib.rs 119-126: the lines of one variant
VariantLines(variant) ==
    DocLines(Indent, variant.docs)
    \o << Indent \o TrimStart(variant.name) \o <<Space, "=", Space>>
          \o (IF variant.discriminant.kind = "Number"
              THEN <<ToString(variant.discriminant.n)>>
              ELSE variant.discriminant.s)
          \o <<",">> >>

RECURSIVE FlatMap(_, _)
FlatMap(Lines(_), members) ==
    IF members = <<>> THEN <<>>
    ELSE Lines(Head(members)) \o FlatMap(Lines, Tail(members))

\* lib.rs 82-106
GenerateClass(class) ==
    DocLines(<<>>, class.docs)
    \o << <<"---@class", Space>>
          \o (IF class.exact THEN <<"(exact)", Space>> ELSE <<>>)
          \o TrimStart(class.name) >>
    \o FlatMap(FieldLines, class.members)
    \o << TrimStart(class.name) \o <<Space, "=", Space, "{", Space, "}">> >>
    \o << <<>> >>

\* lib.rs 111-130
GenerateEnum(enum) ==
    DocLines(<<>>, enum.docs)
    \o << <<"---@enum", Space>> \o TrimStart(enum.name) >>
    \o << TrimStart(enum.name) \o <<Space, "=", Space, "{">> >>
    \o FlatMap(VariantLines, enum.members)
    \o << <<"}">> >>
    \o << <<>> >>

\* lib.rs 72-77
GenerateTypeLines(ty) ==
    IF ty.type = "Class" THEN GenerateClass(ty) ELSE GenerateEnum(ty)

\* The descriptors handed to the renderer: every text with and without
\* leading whitespace.
RenderNames == {<<"Foo">>, <<Space, "Foo">>}
RenderDocs == {<<>>, << <<"doc">> >>, << <<Space, "doc">> >>}
RenderFields ==
    {Field(n, t, d) : n \in {<<"x">>, <<Space, "x">>},
                      t \in {<<"integer">>, <<Space, "integer">>},
                      d \in {<<>>, << <<Space, "doc">> >>}}
RenderVariants ==
    {LuaVariant(n, k, d) :
        n \in {<<"Up">>, <<Space, "Up">>},
        k \in {Number(0), Number(0 - 10), Named(<<"Foo">>),
               Named(<<Space, "Foo">>)},
        d \in {<<>>, << <<Space, "doc">> >>}}
RenderTypes ==
    {Class(e, d, n, fs) : e \in BOOLEAN, d \in RenderDocs, n \in RenderNames,
                          fs \in SeqsUpTo(RenderFields, MaxMembers)}
    \cup
    {Enum(d, n, vs) : d \in RenderDocs, n \in RenderNames,
                      vs \in SeqsUpTo(RenderVariants, MaxMembers)}
Sinks == {<<>>, << <<"earlier">> >>}

\* lib.rs 72-77: generate_type appends to the writer
GenerateType ==
    /\ rPc = "call"
    /\ rPc' = "done"
    /\ rOut' = rOut \o GenerateTypeLines(rTy)
    /\ UNCHANGED <<rTy, rBefore>>
    /\ UNCHANGED <<guessVars, enumVars, structVars, classVars, attrVars>>

-----------------------------------------------------------------------------
(* Specifications: one per component.                                      *)

\* A specification starts one component; the variables of the others stay
\* at their idle values.

\* structs.rs 197-198: try_classify_type(path) is entered
InitGuess ==
    /\ gPc = "call"
    /\ gPath \in Paths
    /\ gRet = None
    /\ ePc = "idle"
    /\ eMetaIn = NoAnno
    /\ eMeta = EnumMeta(FALSE, <<>>)
    /\ eVariants = <<>>
    /\ eOut = <<>>
    /\ eErrors = <<>>
    /\ eSeen = {}
    /\ eN = 0
    /\ eResult = NoResult
    /\ sPc = "idle"
    /\ sGuess = FALSE
    /\ sNamed = TRUE
    /\ sFields = <<>>
    /\ sOut = <<>>
    /\ sFrom = <<>>
    /\ sErrors = <<>>
    /\ sSeen = {}
    /\ sResult = NoResult
    /\ rPc = "idle"
    /\ rTy = Enum(<<>>, <<>>, <<>>)
    /\ rBefore = <<>>
    /\ rOut = <<>>
    /\ eTable = <<>>
    /\ cPc = "idle"
    /\ cMetaIn = NoAnno
    /\ cMeta = ClassMeta(FALSE, FALSE, <<>>)
    /\ cResult = NoResult
    /\ aPc = "idle"
    /\ aAttrs = NoAnno
    /\ aAllowed = AllowedOnVariant
    /\ aRet = Ok(EmptyMap)

SpecGuess == InitGuess /\ [][Classify]_vars

\* enums.rs 63-65: parse(input, data) of an enum is entered
InitEnum ==
    /\ gPc = "idle"
    /\ gPath = <<>>
    /\ gRet = None
    /\ ePc = "meta"
    /\ eMetaIn = NoAnno
    /\ eMeta = EnumMeta(FALSE, <<>>)
    /\ eVariants = <<>>
    /\ eOut = <<>>
    /\ eErrors = <<>>
    /\ eSeen = {}
    /\ eN = 0
    /\ eResult = NoResult
    /\ sPc = "idle"
    /\ sGuess = FALSE
    /\ sNamed = TRUE
    /\ sFields = <<>>
    /\ sOut = <<>>
    /\ sFrom = <<>>
    /\ sErrors = <<>>
    /\ sSeen = {}
    /\ sResult = NoResult
    /\ rPc = "idle"
    /\ rTy = Enum(<<>>, <<>>, <<>>)
    /\ rBefore = <<>>
    /\ rOut = <<>>
    /\ eTable = <<>>
    /\ cPc = "idle"
    /\ cMetaIn = NoAnno
    /\ cMeta = ClassMeta(FALSE, FALSE, <<>>)
    /\ cResult = NoResult
    /\ aPc = "idle"
    /\ aAttrs = NoAnno
    /\ aAllowed = AllowedOnVariant
    /\ aRet = Ok(EmptyMap)

NextEnum == ParseEnumMeta \/ CollectVariant \/ CollectVariantsReturn
SpecEnum == InitEnum /\ [][NextEnum]_vars

\* structs.rs 108-112: collect_fields(fields, guess) is entered
InitStruct ==
    /\ gPc = "idle"
    /\ gPath = <<>>
    /\ gRet = None
    /\ ePc = "idle"
    /\ eMetaIn = NoAnno
    /\ eMeta = EnumMeta(FALSE, <<>>)
    /\ eVariants = <<>>
    /\ eOut = <<>>
    /\ eErrors = <<>>
    /\ eSeen = {}
    /\ eN = 0
    /\ eResult = NoResult
    /\ sPc = "fields"
    /\ sGuess \in BOOLEAN
    /\ sNamed \in BOOLEAN
    /\ sFields = <<>>
    /\ sOut = <<>>
    /\ sFrom = <<>>
    /\ sErrors = <<>>
    /\ sSeen = {}
    /\ sResult = NoResult
    /\ rPc = "idle"
    /\ rTy = Enum(<<>>, <<>>, <<>>)
    /\ rBefore = <<>>
    /\ rOut = <<>>
    /\ eTable = <<>>
    /\ cPc = "idle"
    /\ cMetaIn = NoAnno
    /\ cMeta = ClassMeta(FALSE, FALSE, <<>>)
    /\ cResult = NoResult
    /\ aPc = "idle"
    /\ aAttrs = NoAnno
    /\ aAllowed = AllowedOnVariant
    /\ aRet = Ok(EmptyMap)

NextStruct == CollectField \/ CollectFieldsReturn
SpecStruct == InitStruct /\ [][NextStruct]_vars

\* lib.rs 72: generate_type(out, ty) is entered; out holds rBefore
InitRender ==
    /\ gPc = "idle"
    /\ gPath = <<>>
    /\ gRet = None
    /\ ePc = "idle"
    /\ eMetaIn = NoAnno
    /\ eMeta = EnumMeta(FALSE, <<>>)
    /\ eVariants = <<>>
    /\ eOut = <<>>
    /\ eErrors = <<>>
    /\ eSeen = {}
    /\ eN = 0
    /\ eResult = NoResult
    /\ sPc = "idle"
    /\ sGuess = FALSE
    /\ sNamed = TRUE
    /\ sFields = <<>>
    /\ sOut = <<>>
    /\ sFrom = <<>>
    /\ sErrors = <<>>
    /\ sSeen = {}
    /\ sResult = NoResult
    /\ rPc = "call"
    /\ rTy \in RenderTypes
    /\ rBefore \in Sinks
    /\ rOut = rBefore
    /\ eTable = <<>>
    /\ cPc = "idle"
    /\ cMetaIn = NoAnno
    /\ cMeta = ClassMeta(FALSE, FALSE, <<>>)
    /\ cResult = NoResult
    /\ aPc = "idle"
    /\ aAttrs = NoAnno
    /\ aAllowed = AllowedOnVariant
    /\ aRet = Ok(EmptyMap)

SpecRender == InitRender /\ [][GenerateType]_vars

\* attrs.rs 20-23: parse_attrs(attrs, allowed) is entered
InitAttrs ==
    /\ gPc = "idle"
    /\ gPath = <<>>
    /\ gRet = None
    /\ ePc = "idle"
    /\ eMetaIn = NoAnno
    /\ eMeta = EnumMeta(FALSE, <<>>)
    /\ eVariants = <<>>
    /\ eOut = <<>>
    /\ eErrors = <<>>
    /\ eSeen = {}
    /\ eN = 0
    /\ eResult = NoResult
    /\ sPc = "idle"
    /\ sGuess = FALSE
    /\ sNamed = TRUE
    /\ sFields = <<>>
    /\ sOut = <<>>
    /\ sFrom = <<>>
    /\ sErrors = <<>>
    /\ sSeen = {}
    /\ sResult = NoResult
    /\ rPc = "idle"
    /\ rTy = Enum(<<>>, <<>>, <<>>)
    /\ rBefore = <<>>
    /\ rOut = <<>>
    /\ eTable = <<>>
    /\ cPc = "idle"
    /\ cMetaIn = NoAnno
    /\ cMeta = ClassMeta(FALSE, FALSE, <<>>)
    /\ cResult = NoResult
    /\ aPc = "call"
    /\ aAttrs \in AttrBlocks
    /\ aAllowed \in {AllowedOnField, AllowedOnVariant}
    /\ aRet = Ok(EmptyMap)

SpecAttrs == InitAttrs /\ [][ParseAttrsCall]_vars

\* lib.rs 6-8: the derive is handed a struct or an enum; a struct goes
\* through ClassMeta::parse and collect_fields, an enum through
\* EnumMeta::parse and collect_variants.
InitModelers ==
    \E kind \in {"struct", "fields", "enum"} :
       /\ gPc = "idle"
       /\ gPath = <<>>
       /\ gRet = None
       /\ ePc = IF kind = "enum" THEN "meta" ELSE "idle"
       /\ eMetaIn = NoAnno
       /\ eMeta = EnumMeta(FALSE, <<>>)
       /\ eVariants = <<>>
       /\ eOut = <<>>
       /\ eErrors = <<>>
       /\ eSeen = {}
       /\ eN = 0
       /\ eResult = NoResult
       /\ sPc = IF kind = "fields" THEN "fields" ELSE "idle"
       /\ sGuess \in IF kind = "fields" THEN BOOLEAN ELSE {FALSE}
       /\ sNamed \in IF kind = "fields" THEN BOOLEAN ELSE {TRUE}
       /\ sFields = <<>>
       /\ sOut = <<>>
       /\ sFrom = <<>>
       /\ sErrors = <<>>
       /\ sSeen = {}
       /\ sResult = NoResult
       /\ rPc = "idle"
       /\ rTy = Enum(<<>>, <<>>, <<>>)
       /\ rBefore = <<>>
       /\ rOut = <<>>
       /\ eTable = <<>>
       /\ cPc = IF kind = "struct" THEN "meta" ELSE "idle"
       /\ cMetaIn = NoAnno
       /\ cMeta = ClassMeta(FALSE, FALSE, <<>>)
       /\ cResult = NoResult
       /\ aPc = "idle"
       /\ aAttrs = NoAnno
       /\ aAllowed = AllowedOnVariant
       /\ aRet = Ok(EmptyMap)

NextModelers ==
    \/ ParseClassMeta
    \/ CollectField
    \/ CollectFieldsReturn
    \/ ParseEnumMeta
    \/ CollectVariant
    \/ CollectVariantsReturn
SpecModelers == InitModelers /\ [][NextModelers]_vars

-----------------------------------------------------------------------------
(* Claims on the type guesser (SpecGuess).                                 *)

\* The wrapper shapes of the guesser: Option<T> and Vec<T>, one segment,
\* one type argument that is a path.
IsWrapper(node) ==
    /\ node.ident \in {"Option", "Vec"}
    /\ node.segs = 1
    /\ node.args = "angle" /\ node.nargs = 1 /\ node.first = "path"
IsBase(node) ==
    /\ node.segs = 1 /\ ~node.colon /\ node.args = "none"
    /\ node.ident \in IntegerIdents \cup FloatIdents \cup {"String", "bool"}
BaseName(ident) ==
    CASE ident = "String" -> "string"
      [] ident = "bool" -> "boolean"
      [] ident \in IntegerIdents -> "integer"
      [] ident \in FloatIdents -> "number"
WrapperSuffix(ident) == IF ident = "Option" THEN "?" ELSE "[]"
\* A nest of wrappers around a base type.
IsNest(path) ==
    /\ \A i \in 1..(Len(path) - 1) : IsWrapper(path[i])
    /\ IsBase(path[Len(path)])
\* The base name, then the suffixes from the innermost wrapper outwards.
InnerToOuter(path) ==
    <<BaseName(path[Len(path)].ident)>>
    \o [i \in 1..(Len(path) - 1) |-> WrapperSuffix(path[Len(path) - i].ident)]
\* The base name, then the suffixes from the outermost wrapper inwards.
OuterToInner(path) ==
    <<BaseName(path[Len(path)].ident)>>
    \o [i \in 1..(Len(path) - 1) |-> WrapperSuffix(path[i].ident)]

\* C1: for every nest of `?` and `[]` wrappers around a base type, the
\* guesser returns the base name followed by the wrappers' suffixes, the
\* innermost wrapper's first and the outermost wrapper's last.
C1_SuffixesInnerToOuter ==
    (gPc = "done" /\ IsNest(gPath)) => gRet = Some(InnerToOuter(gPath))

\* What try_classify_type returns instead: the suffixes in the order the
\* wrappers are met, outermost first; and no classification for any path
\* that is no nest.
GuesserOuterToInner ==
    gPc = "done" =>
        gRet = IF IsNest(gPath) THEN Some(OuterToInner(gPath)) ELSE None

-----------------------------------------------------------------------------
(* Claims on the enum modeler (SpecEnum).                                  *)

\* An enum-level block of well-formed keys: `self` flags and at most one
\* non-empty `name = "..."`.
EnumMetaValid(attrs) ==
    \/ ~attrs.present
    \/ /\ attrs.list
       /\ \A j \in 1..Len(attrs.items) :
            LET it == attrs.items[j]
            IN \/ it = Flag("self")
               \/ /\ it.key = "name" /\ it.ident /\ it.hasValue /\ it.isStr
                  /\ ~TrimIsEmpty(it.value)
       /\ Cardinality({j \in 1..Len(attrs.items) :
                         attrs.items[j].key = "name"}) <= 1
HasKey(attrs, key) ==
    attrs.present /\ \E j \in 1..Len(attrs.items) : attrs.items[j].key = key
\* Neither `self` nor `alias`.
DefaultMode(attrs) ==
    EnumMetaValid(attrs) /\ ~HasKey(attrs, "self") /\ ~HasKey(attrs, "alias")

\* The metadata of member v is well formed: no block, or only non-empty
\* `name = "..."` keys, none twice.
VariantMetaValid(v) ==
    \/ ~v.attrs.present
    \/ /\ v.attrs.list
       /\ Len(v.attrs.items) <= 1
       /\ \A j \in 1..Len(v.attrs.items) :
            LET it == v.attrs.items[j]
            IN it.key = "name" /\ it.ident /\ it.hasValue /\ it.isStr
               /\ ~TrimIsEmpty(it.value)
\* The discriminant of v is absent, an integer literal or a negated one.
DiscValid(v) ==
    v.disc.kind = "none"
    \/ (v.disc.kind \in {"lit", "neg"} /\ v.disc.int /\ v.disc.fits)
ValidUnit(v) == v.fields = "unit" /\ VariantMetaValid(v) /\ DiscValid(v)
\* The name member v is given: its rename, else its identifier.
RenamedTo(v) ==
    IF v.attrs.present /\ v.attrs.items # <<>>
    THEN v.attrs.items[1].value ELSE v.ident
NamesDistinct(vs) ==
    \A i, j \in 1..Len(vs) : i # j => RenamedTo(vs[i]) # RenamedTo(vs[j])
\* The number the claim gives the member at position m (1-based).
ClaimedNumber(v, m) ==
    CASE v.disc.kind = "none" -> m - 1
      [] v.disc.kind = "lit" -> v.disc.n
      [] v.disc.kind = "neg" -> 0 - v.disc.n

\* C2: in default mode an enum of valid unit variants is modelled; the
\* variant at 0-based position i has Number(i) when it has no explicit
\* discriminant and Number(v) when it has the literal v (or its negation),
\* whatever explicit values precede it and also when two values coincide.
C2_DefaultSequencing ==
    (/\ ePc \in {"variants", "done"}
     /\ DefaultMode(eMetaIn)
     /\ \A m \in 1..Len(eVariants) : ValidUnit(eVariants[m]))
    =>
    /\ \A k \in 1..Len(eOut) :
         eOut[k].discriminant =
            Number(ClaimedNumber(eVariants[eOut[k].span.m], eOut[k].span.m))
    /\ NamesDistinct(eVariants) =>
         /\ eErrors = <<>>
         /\ Len(eOut) = Len(eVariants)
         /\ \A k \in 1..Len(eOut) : eOut[k].span.m = k
         /\ ePc = "done" => (eResult.status = "ok" /\ eResult.out = eOut)

\* A, B = 10, C is modelled as 0, 10, 2.
C2_Witness ==
    /\ ePc = "done" /\ eResult.status = "ok" /\ DefaultMode(eMetaIn)
    /\ Len(eVariants) = 3
    /\ eVariants[1].disc = NoExpr
    /\ eVariants[2].disc = LitExpr(10)
    /\ eVariants[3].disc = NoExpr
    /\ [k \in 1..3 |-> eResult.out[k].discriminant]
         = <<Number(0), Number(10), Number(2)>>

\* A = 10, B = 10 is modelled: two variants share a value.
C2_SharedValue ==
    /\ ePc = "done" /\ eResult.status = "ok"
    /\ Len(eResult.out) >= 2
    /\ eResult.out[1].discriminant = eResult.out[2].discriminant
    /\ eResult.out[1].discriminant.kind = "Number"

\* The name the enum is given: its rename, else its identifier.
EnumRenamedTo(attrs) ==
    IF HasKey(attrs, "name")
    THEN attrs.items[CHOOSE j \in 1..Len(attrs.items) :
                        attrs.items[j].key = "name"].value
    ELSE EnumIdent
SelfMode(attrs) == EnumMetaValid(attrs) /\ HasKey(attrs, "self")
ExplicitUnit(v) == v.fields = "unit" /\ v.disc.kind # "none"
\* The combined report holds the discriminant-conflict finding at member m.
ReportsSelfConflict(err, m) ==
    \E i \in 1..Len(err) :
        /\ err[i].msg = "a discriminant was provided when self was requested"
        /\ err[i].span = Span(m, "member", 0)

C3_WitnessNamed ==
    /\ ePc = "done" /\ SelfMode(eMetaIn) /\ HasKey(eMetaIn, "name")
    /\ eResult.status = "ok"
    /\ Len(eResult.out) = 3
    /\ \A k \in 1..3 : eResult.out[k].discriminant = Named(<<"Dir">>)

\* `alias = "X"` with X non-empty, at most one rename, no `self`.
AliasMode(attrs) ==
    /\ attrs.present /\ attrs.list
    /\ \A j \in 1..Len(attrs.items) :
         LET it == attrs.items[j]
         IN /\ it.key \in {"alias", "name"}
            /\ it.ident /\ it.hasValue /\ it.isStr /\ ~TrimIsEmpty(it.value)
    /\ \A key \in {"alias", "name"} :
         Cardinality({j \in 1..Len(attrs.items) :
                        attrs.items[j].key = key}) <= 1
    /\ HasKey(attrs, "alias")
AliasOf(attrs) ==
    attrs.items[CHOOSE j \in 1..Len(attrs.items) :
                   attrs.items[j].key = "alias"].value

\* C4: an enum with `alias = "X"`, X non-empty, no `self`, whose variants
\* are unit variants without explicit discriminants, is modelled and every
\* variant is Named(X).
C4_AliasNamed ==
    (/\ ePc = "done"
     /\ AliasMode(eMetaIn)
     /\ \A m \in 1..Len(eVariants) :
          ValidUnit(eVariants[m]) /\ eVariants[m].disc = NoExpr
     /\ NamesDistinct(eVariants))
    =>
    /\ eResult.status = "ok"
    /\ Len(eResult.out) = Len(eVariants)
    /\ \A k \in 1..Len(eResult.out) :
         eResult.out[k].discriminant = Named(AliasOf(eMetaIn))

\* What EnumMeta::parse does with `alias = "X"`: the value is left unread
\* and the block is rejected, whatever else it holds.
AliasValueRejected ==
    (ePc # "meta"
     /\ \E j \in 1..Len(eMetaIn.items) :
          eMetaIn.items[j].key = "alias" /\ eMetaIn.items[j].hasValue)
    => (ePc = "done" /\ eResult.status = "err" /\ eVariants = <<>>)

HasAlias(attrs) ==
    attrs.present /\ \E j \in 1..Len(attrs.items) :
        attrs.items[j].key = "alias" /\ attrs.items[j].hasValue

C5_WitnessAliasFirst ==
    /\ ePc = "done"
    /\ eMetaIn = Anno(<<KeyValue("alias", <<"X">>), Flag("self")>>)
    /\ eResult.status = "err"

\* The metadata of field f is well formed: no block, or `ignore` flags and
\* non-empty `name = "..."` / `lua_type = "..."` keys, neither twice.
FieldMetaValid(f) ==
    \/ ~f.attrs.present
    \/ /\ f.attrs.list
       /\ \A j \in 1..Len(f.attrs.items) :
            LET it == f.attrs.items[j]
            IN \/ it = Flag("ignore")
               \/ /\ it.key \in {"name", "lua_type"}
                  /\ it.ident /\ it.hasValue /\ it.isStr
                  /\ ~TrimIsEmpty(it.value)
       /\ \A key \in {"name", "lua_type"} :
            Cardinality({j \in 1..Len(f.attrs.items) :
                           f.attrs.items[j].key = key}) <= 1
KeyAt(f, key) == CHOOSE j \in 1..Len(f.attrs.items) : f.attrs.items[j].key = key
Ignored(f) == HasKey(f.attrs, "ignore")
Overridden(f) == HasKey(f.attrs, "lua_type")
\* The rendered name of f: its rename, else its declared name.
FieldName(f) ==
    IF HasKey(f.attrs, "name") THEN f.attrs.items[KeyAt(f, "name")].value
    ELSE f.ident
\* Where the name of the field at position m is written.
FieldNameAt(f, m) ==
    IF HasKey(f.attrs, "name") THEN Span(m, "value", KeyAt(f, "name"))
    ELSE Span(m, "ident", 0)
\* A named, non-ignored field with well-formed metadata and a target type.
Resolves(f, guess) ==
    /\ f.named /\ FieldMetaValid(f) /\ ~Ignored(f)
    /\ (guess \/ Overridden(f))
\* The report holds the name-conflict finding of the field at j against
\* the one at i.
ReportsNameConflict(err, fields, j, i) ==
    \E k \in 1..(Len(err) - 1) :
        /\ err[k].msg = "duplicate name found"
        /\ err[k].span = FieldNameAt(fields[j], j)
        /\ err[k + 1].msg = "previous used here"
        /\ err[k + 1].span = FieldNameAt(fields[i], i)
SameNameBefore(fields, j, guess) ==
    {i \in 1..(j - 1) :
        Resolves(fields[i], guess) /\ FieldName(fields[i]) = FieldName(fields[j])}
DistinctNames(out) ==
    \A a, b \in 1..Len(out) : a # b => out[a].name # out[b].name

\* C6: a record in which two non-ignored fields resolve to the same
\* rendered name fails, the report holds a name-conflict finding that
\* references the later and an earlier occurrence, and every Class that is
\* built has pairwise distinct field names.
C6_NameConflictReported ==
    sPc = "done" =>
        /\ \A j \in 1..Len(sFields) :
             (Resolves(sFields[j], sGuess)
              /\ SameNameBefore(sFields, j, sGuess) # {}) =>
                /\ sResult.status = "err"
                /\ \E i \in SameNameBefore(sFields, j, sGuess) :
                     ReportsNameConflict(sResult.err, sFields, j, i)
        /\ sResult.status = "ok" => DistinctNames(sResult.out)

\* What collect_fields does keep: two same-named fields always fail, a
\* Class has distinct names, and the finding is in the report when
\* collect_fields runs to its end.
NameConflictFails ==
    /\ \A j \in 1..Len(sFields) :
         (Resolves(sFields[j], sGuess)
          /\ SameNameBefore(sFields, j, sGuess) # {}) =>
            /\ \E i \in SameNameBefore(sFields, j, sGuess) :
                 \E e \in 1..Len(sErrors) :
                    ReportsNameConflict(sErrors[e], sFields, j, i)
            /\ sPc = "done" => sResult.status = "err"
    /\ DistinctNames(sOut)
    /\ (sPc = "done" /\ sResult.status = "ok") => sResult.out = sOut

\* The names of a Class as the renderer writes them (left-trimmed) are not
\* always distinct: the table of seen names is keyed by the stored name.
DistinctAsRendered ==
    (sPc = "done" /\ sResult.status = "ok") =>
        \A a, b \in 1..Len(sResult.out) :
            a # b => TrimStart(sResult.out[a].name) # TrimStart(sResult.out[b].name)

Range(seq) == {seq[i] : i \in 1..Len(seq)}
ConflictMessages == {"duplicate name found", "previous used here"}
\* The positions of the non-ignored fields, in order.
RECURSIVE Surviving(_, _)
Surviving(fields, m) ==
    IF m > Len(fields) THEN <<>>
    ELSE (IF Ignored(fields[m]) THEN <<>> ELSE <<m>>)
         \o Surviving(fields, m + 1)

\* C7: a named field flagged `ignore` is never in the field list, never in
\* the table of seen names and never in a name-conflict finding, wherever
\* it stands; a record whose only repeated names are those of ignored
\* fields is modelled, with the non-ignored fields in order.
C7_IgnoredNeverCounts ==
    /\ \A m \in 1..Len(sFields) :
         (sFields[m].named /\ Ignored(sFields[m])) =>
            /\ m \notin Range(sFrom)
            /\ \A e \in sSeen : e.span.m # m
            /\ \A e \in 1..Len(sErrors) : \A k \in 1..Len(sErrors[e]) :
                 sErrors[e][k].msg \in ConflictMessages =>
                    sErrors[e][k].span.m # m
            /\ \A k \in 1..Len(sResult.err) :
                 sResult.err[k].msg \in ConflictMessages =>
                    sResult.err[k].span.m # m
    /\ (/\ sPc = "done" /\ sNamed
        /\ \A m \in 1..Len(sFields) :
             /\ FieldMetaValid(sFields[m])
             /\ Ignored(sFields[m]) \/ Resolves(sFields[m], sGuess)
        /\ \A j \in 1..Len(sFields) :
             Resolves(sFields[j], sGuess) =>
                SameNameBefore(sFields, j, sGuess) = {})
       =>
       /\ sResult.status = "ok"
       /\ sResult.out = sOut
       /\ sFrom = Surviving(sFields, 1)
       /\ \A k \in 1..Len(sOut) : sOut[k].name = FieldName(sFields[sFrom[k]])

\* struct { #[anno(ignore)] A, #[anno(name = "A", lua_type = "t")] B,
\* #[anno(ignore, name = "A", lua_type = "t")] C }: only B is in the Class.
C7_Witness ==
    /\ sPc = "done" /\ sNamed /\ Len(sFields) = 3
    /\ sFields[1].attrs = Anno(<<Flag("ignore")>>)
    /\ FieldName(sFields[1]) = <<"A">>
    /\ sFields[2].attrs =
         Anno(<<KeyValue("name", <<"A">>), KeyValue("lua_type", LuaT)>>)
    /\ sFields[3].attrs =
         Anno(<<Flag("ignore"), KeyValue("name", <<"A">>),
                KeyValue("lua_type", LuaT)>>)
    /\ sResult.status = "ok"
    /\ Len(sResult.out) = 1
    /\ sResult.out[1].name = <<"A">>
    /\ sFrom = <<2>>

TypeRequired == "lua_type = type is required"

C8_WitnessRequired ==
    /\ sPc = "done" /\ ~sGuess /\ sNamed /\ Len(sFields) = 1
    /\ sFields[1].attrs = NoAnno
    /\ sResult.status = "err"
    /\ sResult.err = IntoSynError("TyRequire", Span(1, "ident", 0))

\* The member at m has a problem: invalid metadata, no name, no type, or a
\* rendered name an earlier member has.
HasProblem(fields, m, guess) ==
    LET f == fields[m]
    IN \/ ~FieldMetaValid(f)
       \/ ~f.named
       \/ (~Ignored(f) /\ ~guess /\ ~Overridden(f))
       \/ (Resolves(f, guess) /\ SameNameBefore(fields, m, guess) # {})
\* The report holds a finding located at the member at m.
HasFinding(err, m) ==
    \E k \in 1..Len(err) : err[k].span.m = m /\ err[k].msg # "previous used here"

\* C9: the diagnostics of the record modeler are accumulated: the combined
\* report holds a finding for every member that has a problem.
C9_AllProblemsReported ==
    sPc = "done" =>
        \A m \in 1..Len(sFields) :
            HasProblem(sFields, m, sGuess) =>
                (sResult.status = "err" /\ HasFinding(sResult.err, m))

\* What collect_fields does keep: a record with a problem fails, and the
\* findings are all in the report when collect_fields runs to its end.
ReportedAtTheEnd ==
    sPc = "done" =>
        /\ (\E m \in 1..Len(sFields) : HasProblem(sFields, m, sGuess))
             => sResult.status = "err"
        /\ (sErrors # <<>> /\ sResult.err = Reduce(Reverse(sErrors))) =>
             \A m \in 1..Len(sFields) :
                HasProblem(sFields, m, sGuess) => HasFinding(sResult.err, m)

\* The descriptor with every text left-trimmed.
TrimmedDocs(docs) == [i \in 1..Len(docs) |-> TrimStart(docs[i])]
TrimmedDiscriminant(d) ==
    IF d.kind = "Named" THEN Named(TrimStart(d.s)) ELSE d
TrimmedMember(type, mem) ==
    IF type = "Class"
    THEN Field(TrimStart(mem.name), TrimStart(mem.ty), TrimmedDocs(mem.docs))
    ELSE LuaVariant(TrimStart(mem.name), TrimmedDiscriminant(mem.discriminant),
                    TrimmedDocs(mem.docs))
TrimmedType(ty) ==
    [type |-> ty.type, exact |-> ty.exact, docs |-> TrimmedDocs(ty.docs),
     name |-> TrimStart(ty.name),
     members |-> [i \in 1..Len(ty.members) |->
                    TrimmedMember(ty.type, ty.members[i])]]
LeadingSpace(s) == s # <<>> /\ s[1] = Space
NamedUntrimmed(ty) ==
    /\ ty.type = "Enum"
    /\ \E i \in 1..Len(ty.members) :
         /\ ty.members[i].discriminant.kind = "Named"
         /\ LeadingSpace(ty.members[i].discriminant.s)

\* C10: every text the renderer emits is left-trimmed: what is written for
\* a descriptor is what is written for the descriptor with all its texts
\* (docs, names, field types, Named discriminants) left-trimmed.
C10_AllTextsLeftTrimmed ==
    rPc = "done" => rOut = rBefore \o GenerateTypeLines(TrimmedType(rTy))

\* What the renderer does keep: every text but a Named discriminant is
\* left-trimmed.
AllButNamedLeftTrimmed ==
    (rPc = "done" /\ ~NamedUntrimmed(rTy)) =>
        rOut = rBefore \o GenerateTypeLines(TrimmedType(rTy))

\* The lines of a Class, built back to front: the closing lines, before
\* them the fields from the last to the first, before them the header.
DocLine(doc) == <<"---", Space>> \o TrimStart(doc)
RECURSIVE DocsBefore(_, _, _)
DocsBefore(docs, i, lines) ==
    IF i = 0 THEN lines
    ELSE DocsBefore(docs, i - 1, <<DocLine(docs[i])>> \o lines)
FieldLine(field) ==
    <<"---@field", Space>> \o TrimStart(field.name) \o <<Space>>
    \o TrimStart(field.ty)
RECURSIVE FieldsBefore(_, _, _)
FieldsBefore(fields, i, lines) ==
    IF i = 0 THEN lines
    ELSE FieldsBefore(fields, i - 1,
             DocsBefore(fields[i].docs, Len(fields[i].docs),
                        <<FieldLine(fields[i])>> \o lines))
ClassHeader(class) ==
    IF class.exact
    THEN <<"---@class", Space, "(exact)", Space>> \o TrimStart(class.name)
    ELSE <<"---@class", Space>> \o TrimStart(class.name)
ClassFooter(class) ==
    << TrimStart(class.name) \o <<Space, "=", Space, "{", Space, "}">>, <<>> >>
ExpectedClass(class) ==
    DocsBefore(class.docs, Len(class.docs),
        <<ClassHeader(class)>>
        \o FieldsBefore(class.members, Len(class.members), ClassFooter(class)))
RECURSIVE SumDocs(_, _)
SumDocs(fields, i) ==
    IF i = 0 THEN 0 ELSE Len(fields[i].docs) + SumDocs(fields, i - 1)

\* C11: rendering a Class appends, in this order, its doc lines, the
\* `---@class` line with `(exact) ` iff exact, for each field in order its
\* doc lines and its `---@field` line, `<Name> = { }` and an empty line;
\* nothing else, and what the sink held before is unchanged.
C11_ClassLayout ==
    (rPc = "done" /\ rTy.type = "Class") =>
        /\ rOut = rBefore \o ExpectedClass(rTy)
        /\ Len(rOut) = Len(rBefore) + Len(rTy.docs) + 1
                       + Len(rTy.members)
                       + SumDocs(rTy.members, Len(rTy.members)) + 2
        /\ SubSeq(rOut, 1, Len(rBefore)) = rBefore
        /\ ("(exact)" \in Range(rOut[Len(rBefore) + Len(rTy.docs) + 1]))
             <=> rTy.exact
        /\ rOut[Len(rOut)] = <<>>

\* An exact, documented Class of two fields, the second documented, written
\* after earlier content.
C11_Witness ==
    /\ rPc = "done" /\ rTy.type = "Class" /\ rTy.exact
    /\ rBefore = << <<"earlier">> >>
    /\ Len(rTy.docs) = 1 /\ Len(rTy.members) = 2
    /\ rTy.members[1].docs = <<>> /\ rTy.members[2].docs # <<>>
    /\ rTy.members[1].name # rTy.members[2].name
    /\ Len(rOut) = 8
    /\ rOut[3] = <<"---@class", Space, "(exact)", Space, "Foo">>
    /\ rOut[5] = <<"---", Space, "doc">>
    /\ rOut[7] = <<"Foo", Space, "=", Space, "{", Space, "}">>

\* A string that is empty once trimmed.
Blank(str) == \A i \in 1..Len(str) : str[i] = Space
\* The block gives a rename that is empty once trimmed.
BlankRename(attrs) ==
    attrs.present /\ \E j \in 1..Len(attrs.items) :
        LET it == attrs.items[j]
        IN it.key = "name" /\ it.ident /\ it.hasValue /\ it.isStr
           /\ Blank(it.value)
\* The rename a block gives.
RenameIn(attrs) ==
    attrs.items[CHOOSE j \in 1..Len(attrs.items) :
                   attrs.items[j].key = "name"].value
\* The name a declaration `ident` under `attrs` is to have.
ResolvedName(attrs, ident) ==
    IF HasKey(attrs, "name") THEN RenameIn(attrs) ELSE ident
LocatedAt(err, m) == \E i \in 1..Len(err) : err[i].span.m = m

\* C12: the name of a record, enum, field or variant is its rename when
\* one is given (it is then non-empty after trimming), else its declared
\* identifier; a record without metadata is not exact; a rename that is
\* empty after trimming is always rejected with a diagnostic.
C12_NameResolution ==
    /\ (cPc = "done" /\ cResult.status = "ok") =>
          /\ cMeta.name = ResolvedName(cMetaIn, ClassIdent)
          /\ ~Blank(cMeta.name)
    /\ (cPc = "done" /\ ~cMetaIn.present) =>
          /\ cResult.status = "ok"
          /\ cMeta.name = ClassIdent /\ ~cMeta.exact
    /\ (cPc = "done" /\ BlankRename(cMetaIn)) =>
          (cResult.status = "err" /\ cResult.err # <<>>)
    /\ ePc = "variants" =>
          /\ eMeta.name = ResolvedName(eMetaIn, EnumIdent)
          /\ ~Blank(eMeta.name)
    /\ (ePc # "meta" /\ ePc # "idle" /\ BlankRename(eMetaIn)) =>
          /\ ePc = "done" /\ eVariants = <<>>
          /\ eResult.status = "err" /\ eResult.err # <<>>
    /\ \A k \in 1..Len(sOut) :
          LET f == sFields[sFrom[k]]
          IN /\ sOut[k].name = ResolvedName(f.attrs, f.ident)
             /\ ~Blank(sOut[k].name)
    /\ \A m \in 1..Len(sFields) :
          BlankRename(sFields[m].attrs) =>
             /\ m \notin Range(sFrom)
             /\ \E e \in 1..Len(sErrors) : LocatedAt(sErrors[e], m)
             /\ sPc = "done" => (sResult.status = "err" /\ sResult.err # <<>>)
    /\ \A k \in 1..Len(eOut) :
          LET v == eVariants[eOut[k].span.m]
          IN /\ eOut[k].name = ResolvedName(v.attrs, v.ident)
             /\ ~Blank(eOut[k].name)
    /\ \A m \in 1..Len(eVariants) :
          BlankRename(eVariants[m].attrs) =>
             /\ \A k \in 1..Len(eOut) : eOut[k].span.m # m
             /\ \E e \in 1..Len(eErrors) : LocatedAt(eErrors[e], m)
             /\ ePc = "done" =>
                  (eResult.status = "err" /\ LocatedAt(eResult.err, m))

\* #[anno(name = " Rec", exact)] struct Record: the Class is named " Rec".
C12_Witness ==
    /\ cPc = "done"
    /\ cMetaIn = Anno(<<KeyValue("name", <<Space, "Rec">>), Flag("exact")>>)
    /\ cResult.status = "ok"
    /\ cMeta.name = <<Space, "Rec">> /\ cMeta.exact

\* #[anno(name = "Dir")] enum Direction { #[anno(name = "B")] A }
C12_WitnessVariant ==
    /\ ePc = "done" /\ eResult.status = "ok" /\ eMeta.name = <<"Dir">>
    /\ Len(eResult.out) = 1
    /\ eResult.out[1].name = <<"B">> /\ eResult.out[1].variant = <<"A">>

\* struct { #[anno(name = " A", lua_type = "t")] A, #[anno(lua_type = "t")] B }
C12_WitnessField ==
    /\ sPc = "done" /\ sResult.status = "ok" /\ Len(sResult.out) = 2
    /\ sResult.out[1].name = <<Space, "A">>
    /\ sResult.out[2].name = <<"B">>

\* #[anno(name = " ")] on the record, on the enum, on a field, on a variant
C12_WitnessBlankRecord ==
    cPc = "done" /\ BlankRename(cMetaIn) /\ cResult.status = "err"
C12_WitnessBlankField ==
    sPc = "done" /\ Len(sFields) = 2 /\ BlankRename(sFields[1].attrs)
    /\ sResult.status = "err"
C12_WitnessBlankVariant ==
    ePc = "done" /\ Len(eVariants) = 2 /\ BlankRename(eVariants[2].attrs)
    /\ eResult.status = "err"

\* One finding: a message at a place of member m.
Finding(span, msg) == [span |-> span, msg |-> msg, raw |-> "", supported |-> {}]
\* Item j of a block has a key no call site with the keys `accepted` takes.
UnknownKey(items, j, accepted) ==
    items[j].ident /\ items[j].key \notin accepted
\* Item j is `key = "string"`.
StringValued(items, j) ==
    items[j].ident /\ items[j].hasValue /\ items[j].isStr
\* Item j is an accepted string-valued key with a non-blank value.
Entered(items, j, accepted) ==
    /\ StringValued(items, j) /\ items[j].key \in accepted
    /\ items[j].key # "ignore" /\ ~Blank(items[j].value)
\* The earlier occurrences of the key of item j that were entered.
EnteredBefore(items, j, accepted) ==
    {i \in 1..(j - 1) : Entered(items, i, accepted)
                        /\ items[i].key = items[j].key}
Latest(S) == CHOOSE i \in S : \A k \in S : k <= i
\* The diagnostic item j of member m's block is to get, <<>> when none.
ItemDiag(items, j, accepted, m) ==
    IF UnknownKey(items, j, accepted) THEN
        <<[span |-> Span(m, "key", j), msg |-> "unknown ident",
           raw |-> items[j].key, supported |-> accepted]>>
    ELSE IF StringValued(items, j) /\ items[j].key # "ignore"
            /\ Blank(items[j].value) THEN
        <<Finding(Span(m, "value", j), "attribute cannot be empty")>>
    ELSE IF Entered(items, j, accepted)
            /\ EnteredBefore(items, j, accepted) # {} THEN
        <<Finding(Span(m, "key", j), "duplicate attribute found"),
          Finding(Span(m, "key", Latest(EnteredBefore(items, j, accepted))),
                  "previous use here")>>
    ELSE <<>>
\* The report holds the findings d next to each other.
Holds(err, d) ==
    d = <<>> \/ \E i \in 1..Len(err) :
                    i + Len(d) - 1 <= Len(err) /\ SubSeq(err, i, i + Len(d) - 1) = d
\* No item of the block stops the parser: every key is an identifier, the
\* `ignore` flag where it is accepted, or `key = "string"`.
Parseable(items, accepted) ==
    \A j \in 1..Len(items) :
        \/ items[j] = Flag("ignore") /\ "ignore" \in accepted
        \/ StringValued(items, j) /\ items[j].key # "ignore"

\* C13: every key that is not in the allow-list gets an "unknown
\* identifier" finding that names the accepted keys, and every later key
\* of the block is still processed, its own finding being in the report.
C13_UnknownKeysReported ==
    (aPc = "done" /\ aAttrs.present) =>
        \A j \in 1..Len(aAttrs.items) :
            UnknownKey(aAttrs.items, j, DOMAIN aAllowed) =>
                /\ ~aRet.ok
                /\ Holds(aRet.err, ItemDiag(aAttrs.items, j, DOMAIN aAllowed, 1))
                /\ \A k \in (j + 1)..Len(aAttrs.items) :
                     Holds(aRet.err,
                           ItemDiag(aAttrs.items, k, DOMAIN aAllowed, 1))

\* What parse_attrs does keep: in a block none of whose items stops the
\* parser, every unknown key and every other key has its finding reported.
UnknownKeysOfParseableBlocks ==
    (aPc = "done" /\ aAttrs.present
     /\ Parseable(aAttrs.items, DOMAIN aAllowed)) =>
        \A j \in 1..Len(aAttrs.items) :
            /\ Holds(aRet.err, ItemDiag(aAttrs.items, j, DOMAIN aAllowed, 1))
            /\ UnknownKey(aAttrs.items, j, DOMAIN aAllowed) => ~aRet.ok

\* An unknown key without a value, or followed by a key that stops the
\* parser, leaves a report without its "unknown identifier" finding.
UnknownKeyLost ==
    /\ aPc = "done" /\ ~aRet.ok
    /\ \E j \in 1..Len(aAttrs.items) :
         UnknownKey(aAttrs.items, j, DOMAIN aAllowed)
    /\ \A i \in 1..Len(aRet.err) : aRet.err[i].msg # "unknown ident"

\* Item j is a recognized key: `ignore`, or an accepted key with a string.
Recognized(items, j, accepted) ==
    \/ items[j] = Flag("ignore") /\ "ignore" \in accepted
    \/ Entered(items, j, accepted)
KindOfKey(key) ==
    CASE key = "lua_type" -> "Type" [] key = "name" -> "Name"
      [] key = "ignore" -> "Ignore"
First(S) == CHOOSE i \in S : \A k \in S : i <= k
Occurrences(items, key, accepted) ==
    {i \in 1..Len(items) : Recognized(items, i, accepted) /\ items[i].key = key}

\* C14: a recognized key (string-valued or `ignore`) that occurs more than
\* once in a block gets a duplicate finding that references both
\* occurrences, and the entry the mapping keeps for a key is the one of
\* its first occurrence.
C14_DuplicateKeysReported ==
    (aPc = "done" /\ aAttrs.present
     /\ Parseable(aAttrs.items, DOMAIN aAllowed)) =>
        /\ \A j \in 1..Len(aAttrs.items) :
             LET before == {i \in Occurrences(aAttrs.items, aAttrs.items[j].key,
                                              DOMAIN aAllowed) : i < j}
             IN (Recognized(aAttrs.items, j, DOMAIN aAllowed) /\ before # {}) =>
                  /\ ~aRet.ok
                  /\ \E i \in before :
                       Holds(aRet.err,
                             <<Finding(Span(1, "key", j), "duplicate attribute found"),
                               Finding(Span(1, "key", i), "previous use here")>>)
        /\ aRet.ok =>
             \A key \in DOMAIN aAllowed :
                Occurrences(aAttrs.items, key, DOMAIN aAllowed) # {} =>
                    /\ aRet.v[KindOfKey(key)].present
                    /\ aRet.v[KindOfKey(key)].key =
                         Span(1, "key", First(Occurrences(aAttrs.items, key,
                                                          DOMAIN aAllowed)))

\* What parse_attrs does keep: a string-valued key that occurs again gets
\* the duplicate finding, referencing the occurrence before it.
StringDuplicatesReported ==
    (aPc = "done" /\ aAttrs.present
     /\ Parseable(aAttrs.items, DOMAIN aAllowed)) =>
        \A j \in 1..Len(aAttrs.items) :
            (Entered(aAttrs.items, j, DOMAIN aAllowed)
             /\ EnteredBefore(aAttrs.items, j, DOMAIN aAllowed) # {}) =>
                /\ ~aRet.ok
                /\ Holds(aRet.err, ItemDiag(aAttrs.items, j, DOMAIN aAllowed, 1))

\* #[anno(ignore, ignore)] on a field is accepted, and the entry is the one
\* of the second occurrence.
RepeatedIgnoreAccepted ==
    /\ aPc = "done" /\ aAttrs = Anno(<<Flag("ignore"), Flag("ignore")>>)
    /\ "ignore" \in DOMAIN aAllowed
    /\ aRet.ok /\ aRet.v["Ignore"].key = Span(1, "key", 2)

-----------------------------------------------------------------------------
(* Claims on the combination of diagnostics (SpecModelers).                *)

\* The findings of the collected diagnostics, the last collected first.
RECURSIVE NewestFirst(_)
NewestFirst(errs) ==
    IF errs = <<>> THEN <<>>
    ELSE errs[Len(errs)] \o NewestFirst(SubSeq(errs, 1, Len(errs) - 1))
\* The diagnostics of the items of member m's block, in the order of the
\* items.
MemberDiags(items, accepted, m) ==
    [j \in 1..Len(items) |-> ItemDiag(items, j, accepted, m)]
\* The block of the member stops no parser and has a diagnostic.
HasDiags(attrs, accepted) ==
    /\ attrs.present /\ Parseable(attrs.items, accepted)
    /\ \E j \in 1..Len(attrs.items) : ItemDiag(attrs.items, j, accepted, 1) # <<>>
\* collect_fields ends after its last field with the collected errors.
FieldsCombined ==
    (sPc = "fields" /\ sPc' = "done" /\ sFields' = sFields) =>
        /\ sResult'.status = "ok" <=> sErrors = <<>>
        /\ sErrors # <<>> =>
             /\ sResult'.status = "err"
             /\ sResult'.err = NewestFirst(sErrors)
\* collect_variants ends after its last variant with the collected errors.
VariantsCombined ==
    (ePc = "variants" /\ ePc' = "done") =>
        /\ eResult'.status = "ok" <=> eErrors = <<>>
        /\ eErrors # <<>> =>
             /\ eResult'.status = "err"
             /\ eResult'.err = NewestFirst(eErrors)
\* The diagnostics of a field's own block are combined, newest first, and
\* collected as one entry.
FieldEntryCombined ==
    (sPc = "fields" /\ sFields' # sFields) =>
        LET m == Len(sFields')
            attrs == sFields'[m].attrs
        IN HasDiags(attrs, DOMAIN AllowedOnField) =>
             sErrors' = Append(sErrors,
                 NewestFirst(MemberDiags(attrs.items, DOMAIN AllowedOnField, m)))
\* The same for a variant's own block.
VariantEntryCombined ==
    (ePc = "variants" /\ eVariants' # eVariants) =>
        LET m == Len(eVariants')
            attrs == eVariants'[m].attrs
        IN HasDiags(attrs, DOMAIN AllowedOnVariant) =>
             eErrors' = Append(eErrors,
                 NewestFirst(MemberDiags(attrs.items, DOMAIN AllowedOnVariant, m)))

\* C15: the diagnostics collected as d1, ..., dn are reported with dn first,
\* followed by dn-1, ..., d1, also when an entry is the combination of a
\* member's own diagnostics, which is itself newest first; the result is
\* "no error" exactly when nothing was collected.
C15_ReverseCollectionOrder ==
    [][/\ FieldsCombined /\ VariantsCombined
       /\ FieldEntryCombined /\ VariantEntryCombined]_vars

\* Two fields, the first with an empty rename and then an unknown key, the
\* second with an empty rename: the report is the second field's finding,
\* then the first field's two, the unknown key before the empty rename.
C15_Witness ==
    /\ sPc = "done" /\ Len(sFields) = 2 /\ Len(sErrors) = 2
    /\ sFields[1].attrs = TwoProblems
    /\ sFields[2].attrs = Anno(<<KeyValue("name", <<>>)>>)
    /\ sResult.status = "err"
    /\ sResult.err =
         <<Finding(Span(2, "value", 1), "attribute cannot be empty"),
           [span |-> Span(1, "key", 2), msg |-> "unknown ident",
            raw |-> "foo", supported |-> DOMAIN AllowedOnField],
           Finding(Span(1, "value", 1), "attribute cannot be empty")>>
\* The same on an enum: a variant with the two problems, then a tuple
\* variant.
C15_WitnessEnum ==
    /\ ePc = "done" /\ Len(eVariants) = 2 /\ Len(eErrors) = 2
    /\ eVariants[1].attrs = TwoProblems
    /\ eVariants[2].fields = "tuple"
    /\ eResult.status = "err" /\ Len(eResult.err) = 3
    /\ eResult.err[1].span.m = 2
    /\ eResult.err[2].msg = "unknown ident"
    /\ eResult.err[3] = Finding(Span(1, "value", 1), "attribute cannot be empty")

-----------------------------------------------------------------------------
(* Claims on the produced member lists (SpecModelers).                     *)

\* C16: when the record modeler succeeds, the field list has exactly one
\* entry for every declared field not flagged `ignore`, in declaration
\* order; when the enum modeler succeeds, the variant list and the lookup
\* table built from it have exactly one entry for every declared variant,
\* in declaration order.  No entry is added, dropped or reordered.
C16_OneEntryPerMember ==
    /\ (sPc = "done" /\ sResult.status = "ok") =>
          LET kept == Surviving(sFields, 1)
          IN /\ Len(sResult.out) = Len(kept)
             /\ sFrom = kept
             /\ \A k \in 1..Len(kept) :
                  LET f == sFields[kept[k]]
                  IN /\ f.named
                     /\ sResult.out[k].name = ResolvedName(f.attrs, f.ident)
    /\ (ePc = "done" /\ eResult.status = "ok") =>
          /\ Len(eResult.out) = Len(eVariants)
          /\ Len(eTable) = Len(eVariants)
          /\ \A k \in 1..Len(eVariants) :
               LET v == eVariants[k]
               IN /\ ~HasKey(v.attrs, "ignore")
                  /\ eResult.out[k].span = Span(k, "member", 0)
                  /\ eResult.out[k].variant = v.ident
                  /\ eResult.out[k].name = ResolvedName(v.attrs, v.ident)
                  /\ eTable[k] = [name |-> ResolvedName(v.attrs, v.ident),
                                  path |-> v.ident]

\* enum { A, #[anno(name = "B")] B = 10, C }: three variants, three rows.
C16_Witness ==
    /\ ePc = "done" /\ eResult.status = "ok" /\ Len(eVariants) = 3
    /\ eVariants[2].attrs = Anno(<<KeyValue("name", MemberIdent(2))>>)
    /\ eVariants[2].disc = LitExpr(10)
    /\ eTable = <<[name |-> <<"A">>, path |-> <<"A">>],
                  [name |-> <<"B">>, path |-> <<"B">>],
                  [name |-> <<"C">>, path |-> <<"C">>]>>
\* struct { #[anno(lua_type = "t")] A, #[anno(ignore)] B,
\* #[anno(lua_type = "t")] C }: the fields A and C, in this order.
C16_WitnessRecord ==
    /\ sPc = "done" /\ sResult.status = "ok" /\ Len(sFields) = 3
    /\ sFields[2].attrs = Anno(<<Flag("ignore")>>)
    /\ Len(sResult.out) = 2
    /\ sResult.out[1].name = <<"A">> /\ sResult.out[2].name = <<"C">>

====
